---- MODULE Spec2Model ----
(***************************************************************************)
(* A model of the USTAR codec of go-blanktar.                               *)
(*                                                                         *)
(*   src/main.go   the Entry (File): NewFile, Write, Seek, Read, WriteTo,   *)
(*                 ParseFile and Walk, with the header's checksum           *)
(*   src/block.go  NewHeaderBlock: the Name/Prefix split of a long path     *)
(*                                                                         *)
(* A byte string is a sequence of numbers 0..255; a Go string is the        *)
(* sequence of its bytes.                                                   *)
(***************************************************************************)
EXTENDS Integers, Sequences, FiniteSets, TLC

\* ------------------------------------------------------------ bounds

\* Operations (Write, Seek, Read) applied to one Entry.
MaxOps == 3
\* Longest payload of one Write and longest buffer of one Read.
MaxPayload == 2
\* Entries encoded into one archive stream.
MaxEntries == 2
\* '/'-delimited segments of one path.
MaxSegs == 3

\* ------------------------------------------------- program constants

BlockSize == 512
Len100 == 100
Len155 == 155
Len32 == 32
Len12 == 12
Len8 == 8
Len6 == 6
REGTYPE == 48
CONTTYPE == 55
DIRTYPE == 53
SYMTYPE == 50
CHRTYPE == 51
BLKTYPE == 52
FIFOTYPE == 54

\* ------------------------------------------------------ byte strings

Min(a, b) == IF a <= b THEN a ELSE b

Max(a, b) == IF a >= b THEN a ELSE b

Zeros(n) == [i \in 1..n |-> 0]

Take(s, n) == SubSeq(s, 1, Min(n, Len(s)))

Drop(s, n) == SubSeq(s, n + 1, Len(s))

\* Go's copy(dst, src): the first min(len(dst), len(src)) bytes of dst are
\* overwritten, the rest of dst is kept.
CopyInto(dst, src) ==
  [i \in 1..Len(dst) |-> IF i <= Len(src) THEN src[i] ELSE dst[i]]

\* The number of bytes copy(dst, src) reports.
CopyCount(dst, src) == Min(Len(dst), Len(src))

\* The sum of s[from..to], halving the range to keep the evaluation shallow.
RECURSIVE SumRange(_, _, _)
SumRange(s, from, to) ==
  IF from > to THEN 0
  ELSE IF from = to THEN s[from]
  ELSE LET mid == (from + to) \div 2
       IN SumRange(s, from, mid) + SumRange(s, mid + 1, to)

\* for _, x := range s { sum += int64(x) }
SumTo(s, n) == SumRange(s, 1, n)

\* string(s[:]) trimmed of its trailing NUL bytes (strings.TrimRight).
TrimRightNul(s) ==
  LET keep == {i \in 1..Len(s) : s[i] # 0}
  IN IF keep = {} THEN <<>>
     ELSE SubSeq(s, 1, CHOOSE i \in keep : \A j \in keep : j <= i)

\* ------------------------------------------------------- field codec

RECURSIVE OctDigits(_)
OctDigits(n) ==
  IF n < 8 THEN <<48 + n>> ELSE OctDigits(n \div 8) \o <<48 + (n % 8)>>

\* fmt.Sprintf("%0<width>o", n) for n >= 0.
SprintfOct(width, n) ==
  LET d == OctDigits(n)
  IN IF Len(d) >= width THEN d ELSE [i \in 1..(width - Len(d)) |-> 48] \o d

\* fmt's isSpace on the bytes a field can hold, newline apart.
IsSpace(b) == b \in {9, 11, 12, 13, 32}

IsOctDigit(b) == b >= 48 /\ b <= 55

RECURSIVE OctValue(_, _, _)
OctValue(s, from, to) ==
  IF to < from THEN 0 ELSE 8 * OctValue(s, from, to - 1) + (s[to] - 48)

\* fmt.Sscanf(string(s), "%o", &i) into a signed integer that starts 0:
\* leading spaces are skipped (a newline is an error), one sign is accepted,
\* then the run of octal digits is read; without a digit the scan fails
\* and i keeps 0.  Whatever follows the run is not looked at.
SscanfOct(s) ==
  LET nonsp == {i \in 1..Len(s) : ~IsSpace(s[i])}
  IN IF nonsp = {} THEN 0
     ELSE LET a == CHOOSE i \in nonsp : \A j \in nonsp : i <= j
              b == IF s[a] \in {43, 45} THEN a + 1 ELSE a
              stop == {i \in b..Len(s) : ~IsOctDigit(s[i])}
              e == IF stop = {} THEN Len(s) + 1
                   ELSE CHOOSE i \in stop : \A j \in stop : i <= j
          IN IF e = b THEN 0
             ELSE IF s[a] = 45 THEN 0 - OctValue(s, b, e - 1)
             ELSE OctValue(s, b, e - 1)

\* main.go: copy(r[:], s) into a zeroed [100]byte, silently cut at 100.
NewString100(s) == CopyInto(Zeros(Len100), s)

\* main.go: string(s[:]), all bytes of the array, NUL padding included.
String100String(s) == s

String155String(s) == s

\* os.ModePerm, the mode NewFile passes: permission bits 0777, no setuid/setgid.
ModePerm == [perm |-> 511, setuid |-> FALSE, setgid |-> FALSE]

NewMode(mode) ==
  LET i == mode.perm + (IF mode.setuid THEN 2048 ELSE 0)
                     + (IF mode.setgid THEN 1024 ELSE 0)
  IN CopyInto(Zeros(Len8), SprintfOct(7, i))

\* Mode.FileMode: the octal run of m[3:], as [perm, setuid, setgid].
ModeFileMode(m) ==
  LET i == SscanfOct(SubSeq(m, 4, Len8))
  IN [perm |-> i % 512,
      setuid |-> (i \div 2048) % 2 = 1,
      setgid |-> (i \div 1024) % 2 = 1]

NewSize(size) == CopyInto(Zeros(Len12), SprintfOct(7, size))

SizeInt(s) == SscanfOct(s)

TimestampTime(t) == SscanfOct(t)

NewCheckSum(checksum) == CopyInto(Zeros(Len8), SprintfOct(7, checksum))

CheckSumInt(c) == SscanfOct(c)

NewID(id) == CopyInto(Zeros(Len8), SprintfOct(7, id))

\* "ustar" copied into a zeroed [6]byte.
NewMagic == CopyInto(Zeros(Len6), <<117, 115, 116, 97, 114>>)

NewVersion == <<48, 48>>

TypeFlagFileMode(t) ==
  CASE t = SYMTYPE -> "symlink"
    [] t = CHRTYPE -> "chardevice"
    [] t = BLKTYPE -> "device"
    [] t = DIRTYPE -> "dir"
    [] t = FIFOTYPE -> "namedpipe"
    [] OTHER -> "regular"

\* ------------------------------------------------ main.go: the header

\* binary.Write(w, binary.BigEndian, h): the fields in declaration order.
Bytes(h) ==
  h.BaseName \o h.RawMode \o h.UID \o h.GID \o h.RawSize \o h.MTime
    \o h.CheckSum \o <<h.TypeFlag>> \o h.LinkName \o h.Magic \o h.Version
    \o h.UName \o h.GName \o h.DevMajor \o h.DevMinor \o h.Prefix \o h.Padding

\* binary.Read(r, binary.BigEndian, &h) of a full 512-byte record.
ReadHeader(b) ==
  [BaseName |-> SubSeq(b, 1, 100), RawMode |-> SubSeq(b, 101, 108),
   UID |-> SubSeq(b, 109, 116), GID |-> SubSeq(b, 117, 124),
   RawSize |-> SubSeq(b, 125, 136), MTime |-> SubSeq(b, 137, 148),
   CheckSum |-> SubSeq(b, 149, 156), TypeFlag |-> b[157],
   LinkName |-> SubSeq(b, 158, 257), Magic |-> SubSeq(b, 258, 263),
   Version |-> SubSeq(b, 264, 265), UName |-> SubSeq(b, 266, 297),
   GName |-> SubSeq(b, 298, 329), DevMajor |-> SubSeq(b, 330, 337),
   DevMinor |-> SubSeq(b, 338, 345), Prefix |-> SubSeq(b, 346, 500),
   Padding |-> SubSeq(b, 501, 512)]

\* calcTotal stopping short of the 12 bytes of Padding.
calcTotalNoPadding(h) == LET b == Bytes(h) IN SumTo(b, Len(b) - Len12)

calcTotal(h) == LET b == Bytes(h) IN SumTo(b, Len(b))

\* The checksum over the header's bytes the CheckSum field apart, plus
\* 0x30*6 - 0x20 = 256, eight spaces.
CalcSum(h) == calcTotal(h) - SumTo(h.CheckSum, Len8) + (48 * 6 - 32)

Validate(h) == CalcSum(h) = CheckSumInt(h.CheckSum)

\* HeaderBlock.Name.
Name(h) ==
  LET pre == String155String(h.Prefix)
  IN IF pre = <<>> THEN String100String(h.BaseName)
     ELSE pre \o <<47>> \o String100String(h.BaseName)

Size(h) == SizeInt(h.RawSize)

Mode(h) == [bits |-> ModeFileMode(h.RawMode), type |-> TypeFlagFileMode(h.TypeFlag)]

ModTime(h) == TimestampTime(h.MTime)

\* ------------------------------------------------- main.go: the Entry

\* Go's integer division, which truncates toward zero.
GoDiv(a, b) == IF a >= 0 THEN a \div b ELSE 0 - ((0 - a) \div b)

\* The header NewFile builds, before its checksum is set.
NewFileHeader(name) ==
  [BaseName |-> NewString100(name), RawMode |-> NewMode(ModePerm),
   UID |-> NewID(1000), GID |-> NewID(1000), RawSize |-> Zeros(Len12),
   MTime |-> Zeros(Len12), CheckSum |-> Zeros(Len8), TypeFlag |-> REGTYPE,
   LinkName |-> Zeros(Len100), Magic |-> NewMagic, Version |-> NewVersion,
   UName |-> Zeros(Len32), GName |-> Zeros(Len32), DevMajor |-> Zeros(Len8),
   DevMinor |-> Zeros(Len8), Prefix |-> Zeros(Len155), Padding |-> Zeros(Len12)]

\* NewFile: the Entry, and the reader bytes.NewReader(body) built on the
\* empty body slice (its slice and its position).
NewFile(name) ==
  LET h == NewFileHeader(name)
  IN [Header |-> [h EXCEPT !.CheckSum = NewCheckSum(CalcSum(h))],
      Body |-> <<>>, readerBuf |-> <<>>, readerPos |-> 0]

\* File.Write up to copy(f.Body[pos:], p): the buffer is reallocated when
\* fewer than len(p) bytes lie after pos, to len(f.Body)-pos+len(p) bytes.
\* make with a negative length panics; f.Body[pos:] panics when pos lies
\* past the (new) length, and by then f.Body is already the new buffer.
WriteBody(body, pos, p) ==
  LET grow == Len(body) - pos < Len(p)
      n == Len(body) - pos + Len(p)
  IN IF grow /\ n < 0 THEN [panic |-> TRUE, Body |-> body, n |-> 0]
     ELSE LET b1 == IF grow THEN CopyInto(Zeros(n), body) ELSE body
          IN IF pos > Len(b1) THEN [panic |-> TRUE, Body |-> b1, n |-> 0]
             ELSE [panic |-> FALSE,
                   Body |-> Take(b1, pos) \o CopyInto(Drop(b1, pos), p),
                   n |-> CopyCount(Drop(b1, pos), p)]

\* Rederive with its two assignments in the other order: the checksum is
\* taken before the Size field changes.
RederiveChecksumFirst(h, body) ==
  LET h1 == [h EXCEPT !.CheckSum = NewCheckSum(CalcSum(h))]
  IN [h1 EXCEPT !.RawSize = NewSize(Len(body))]

\* File.Write's last two assignments: Size and CheckSum from the new body.
Rederive(h, body) ==
  LET h1 == [h EXCEPT !.RawSize = NewSize(Len(body))]
  IN [h1 EXCEPT !.CheckSum = NewCheckSum(CalcSum(h1))]

\* The whence of a Seek: io.SeekStart, io.SeekCurrent, io.SeekEnd.
SeekStart == "SeekStart"

SeekCurrent == "SeekCurrent"

SeekEnd == "SeekEnd"

\* bytes.Reader.Seek on the reader of the Entry: the new position, or -1
\* for the error "negative position" (the position is then kept).
SeekAbs(buf, pos, offset, whence) ==
  LET abs == CASE whence = SeekStart -> offset
               [] whence = SeekCurrent -> pos + offset
               [] OTHER -> Len(buf) + offset
  IN IF abs < 0 THEN -1 ELSE abs

\* bytes.Reader.Read into a buffer of n bytes: the bytes returned.
ReaderRead(buf, pos, n) ==
  IF pos >= Len(buf) THEN <<>> ELSE Take(Drop(buf, pos), n)

\* File.ContentBlocks: one zeroed 512-byte block per started 512 bytes.
ContentBlocks(body) ==
  [i \in 1..((Len(body) + 511) \div 512) |->
     CopyInto(Zeros(BlockSize), Drop(body, (i - 1) * 512))]

\* ContentsArray.WriteTo: the blocks one after the other.
RECURSIVE ContentsBytes(_, _)
ContentsBytes(cs, n) ==
  IF n = 0 THEN <<>> ELSE ContentsBytes(cs, n - 1) \o cs[n]

\* File.WriteTo.
WriteTo(h, body) ==
  Bytes(h) \o (IF h.TypeFlag = REGTYPE \/ h.TypeFlag = CONTTYPE
                 THEN LET cs == ContentBlocks(body) IN ContentsBytes(cs, Len(cs))
                 ELSE <<>>)

FooterBlock == Zeros(2 * BlockSize)

\* The zero HeaderBlock, standing for the nil *File of an error return.
NoHeader == ReadHeader(Zeros(BlockSize))

\* HeaderBlock.IsFooter of main.go, which holds of no header.
IsFooterNever(h) == FALSE

\* ParseFile's test for the end of the archive: f.Header.calcTotal() == 0.
IsFooterRecord(h) == calcTotal(h) = 0

\* ParseFile on the stream s read up to pos: the error ("nil" for none),
\* the Entry, and the position reached.  binary.Read reports io.EOF when no
\* byte is left and io.ErrUnexpectedEOF on a partial record.  io.CopyN is
\* given `blocks`, a count of blocks, as its count of bytes; when the source
\* ends first it reports io.EOF.  buf.Bytes()[:Size] reslices the buffer
\* into its spare capacity, which holds zero bytes (Size is within the
\* capacity bytes.Buffer allocates for the sizes modelled); a negative
\* Size panics.
ParseFile(s, pos) ==
  LET avail == Len(s) - pos
      none == [err |-> "EOF", Header |-> NoHeader, Body |-> <<>>, pos |-> pos]
  IN IF avail = 0 THEN none
     ELSE IF avail < BlockSize
       THEN [none EXCEPT !.err = "ErrUnexpectedEOF", !.pos = Len(s)]
     ELSE
       LET h == ReadHeader(SubSeq(s, pos + 1, pos + BlockSize))
           p1 == pos + BlockSize
       IN IF IsFooterRecord(h) THEN [none EXCEPT !.pos = p1]
          ELSE IF h.TypeFlag # REGTYPE /\ h.TypeFlag # CONTTYPE
            THEN [err |-> "nil", Header |-> h, Body |-> <<>>, pos |-> p1]
          ELSE
            LET blocks == GoDiv(Size(h) + 511, 512)
                n == Min(Max(blocks, 0), Len(s) - p1)
                read == SubSeq(s, p1 + 1, p1 + n)
            IN IF n # blocks THEN [none EXCEPT !.pos = p1 + n]
               ELSE IF Size(h) < 0 THEN [none EXCEPT !.err = "panic", !.pos = p1 + n]
               ELSE [err |-> "nil", Header |-> h,
                     Body |-> Take(read \o Zeros(Size(h)), Size(h)),
                     pos |-> p1 + n]

\* ------------------------------------------------------------ state

VARIABLES
  Header,     \* f.Header of the Entry
  Body,       \* f.Body
  readerBuf,  \* the slice f.reader was built on
  readerPos,  \* f.reader's position
  panicked,   \* a call on the Entry panicked: the program is gone
  written,    \* history: the payloads of the Writes so far, concatenated
  seeked,     \* history: some Seek was called
  nops,       \* history: operations so far
  last,       \* history: the last call and what it returned
  parsed,     \* what ParseFile made of the serialized Entry and a footer
  wire,       \* a serialized header, one byte of it changed
  stream,     \* the archive being walked
  pos,        \* bytes of the stream read so far
  result,     \* what Walk returned, "running" before
  calls,      \* history: the callback's invocations
  eoaAt,      \* history: where an all-zero record was read, -1 before
  entries,    \* history: the bodies the stream was encoded from
  info,       \* the os.FileInfo given to NewHeaderBlock
  hb          \* what NewHeaderBlock returned

fileVars == <<Header, Body, readerBuf, readerPos, panicked, written, seeked,
              nops, last, parsed>>

walkVars == <<stream, pos, result, calls, eoaAt, entries>>

pathVars == <<info, hb>>

vars == <<fileVars, wire, walkVars, pathVars>>

\* ---------------------------------------------------- the Entry's life

\* Names given to NewFile: "foobar" and "a".
Names == {<<102, 111, 111, 98, 97, 114>>, <<97>>}

\* The pieces of up to n bytes of the text "hij..." of n bytes.
Payloads(n) ==
  {[i \in 1..len |-> 103 + from + i] : from \in 0..n, len \in 0..n}
    \cap UNION {[1..k -> 104..(103 + n)] : k \in 0..n}

NoCall == [op |-> "none", arg |-> 0, whence |-> "none", ret |-> 0, data |-> <<>>,
           afterRewind |-> FALSE]

NoParse == [err |-> "none", Header |-> NoHeader, Body |-> <<>>, pos |-> 0]

InitFile(name) ==
  LET f == NewFile(name)
  IN /\ Header = f.Header
     /\ Body = f.Body
     /\ readerBuf = f.readerBuf
     /\ readerPos = f.readerPos
     /\ panicked = FALSE
     /\ written = <<>>
     /\ seeked = FALSE
     /\ nops = 0
     /\ last = NoCall
     /\ parsed = NoParse

IdleWire == wire = <<>>

IdleWalk ==
  /\ stream = <<>>
  /\ pos = 0
  /\ result = "idle"
  /\ calls = <<>>
  /\ eoaAt = -1
  /\ entries = <<>>

IdlePath == info = <<>> /\ hb = <<>>

Init == (\E name \in Names : InitFile(name)) /\ IdleWire /\ IdleWalk /\ IdlePath

Usable == ~panicked /\ parsed = NoParse /\ nops < MaxOps

\* f.Write(p).  The position read first is the reader's; Seek by the count
\* copied cannot fail; the value returned is the new position.
Write ==
  /\ Usable
  /\ \E p \in Payloads(MaxPayload) :
       LET w == WriteBody(Body, readerPos, p)
       IN /\ Body' = w.Body
          /\ panicked' = w.panic
          /\ Header' = IF w.panic THEN Header ELSE Rederive(Header, w.Body)
          /\ readerPos' = IF w.panic THEN readerPos ELSE readerPos + w.n
          /\ written' = written \o p
          /\ last' = [NoCall EXCEPT !.op = "Write", !.arg = Len(p),
                                    !.ret = readerPos + w.n]
  /\ nops' = nops + 1
  /\ UNCHANGED <<readerBuf, seeked, parsed, wire, walkVars, pathVars>>

\* f.Seek(offset, whence).
Seek ==
  /\ Usable
  /\ \E offset \in -1..1, whence \in {SeekStart, SeekCurrent, SeekEnd} :
       LET abs == SeekAbs(readerBuf, readerPos, offset, whence)
       IN /\ readerPos' = IF abs < 0 THEN readerPos ELSE abs
          /\ last' = [NoCall EXCEPT !.op = "Seek", !.arg = offset,
                                    !.whence = whence, !.ret = abs]
  /\ seeked' = TRUE
  /\ nops' = nops + 1
  /\ UNCHANGED <<Header, Body, readerBuf, panicked, written, parsed, wire,
                 walkVars, pathVars>>

\* f.Read(p) with len(p) = n.
Read ==
  /\ Usable
  /\ \E n \in 0..MaxPayload :
       LET data == ReaderRead(readerBuf, readerPos, n)
       IN /\ readerPos' = readerPos + Len(data)
          /\ last' = [NoCall EXCEPT !.op = "Read", !.arg = n, !.ret = Len(data),
                        !.data = data,
                        !.afterRewind = (last.op = "Seek" /\ last.arg = 0
                                         /\ last.whence = SeekStart)]
  /\ nops' = nops + 1
  /\ UNCHANGED <<Header, Body, readerBuf, panicked, written, seeked, parsed,
                 wire, walkVars, pathVars>>

\* The Entry is serialized, the footer appended, and the bytes decoded.
RoundTrip ==
  /\ ~panicked
  /\ parsed = NoParse
  /\ parsed' = ParseFile(WriteTo(Header, Body) \o FooterBlock, 0)
  /\ UNCHANGED <<Header, Body, readerBuf, readerPos, panicked, written, seeked,
                 nops, last, wire, walkVars, pathVars>>

Next == Write \/ Seek \/ Read \/ RoundTrip

Spec == Init /\ [][Next]_vars

\* ------------------------------------------------------- main.go: Walk

\* The Entry NewFile(name) after one Write(body), serialized by WriteTo.
EncodeEntry(name, body) ==
  LET f == NewFile(name)
      w == WriteBody(f.Body, f.readerPos, body)
  IN WriteTo(Rederive(f.Header, w.Body), w.Body)

\* Bodies of the entries of a stream: none, "h", and 513 bytes 'x'.
EntryBodies == {<<>>, <<104>>, [i \in 1..(BlockSize + 1) |-> 120]}

BodyLists == UNION {[1..k -> EntryBodies] : k \in 0..MaxEntries}

RECURSIVE EncodeAll(_, _)
EncodeAll(bodies, n) ==
  IF n = 0 THEN <<>>
  ELSE EncodeAll(bodies, n - 1) \o EncodeEntry(<<102, 111, 111, 98, 97, 114>>, bodies[n])

\* What may follow the footer on the medium: nothing, or one more entry.
Trailers == {<<>>, EncodeEntry(<<97>>, <<104>>)}

\* Where a stream is cut short: nowhere, at a record boundary, or one byte
\* past one.
CutPoints(n) == {n} \cup {c \in 0..n : c % BlockSize \in {0, 1}}

\* Whether the 512 bytes of s after pos are there and all zero.
ZeroRecordAt(s, at) ==
  /\ Len(s) - at >= BlockSize
  /\ \A i \in (at + 1)..(at + BlockSize) : s[i] = 0

InitWalk ==
  \E bodies \in BodyLists, trailer \in Trailers :
    LET full == EncodeAll(bodies, Len(bodies)) \o FooterBlock \o trailer
    IN \E cut \in CutPoints(Len(full)) :
         /\ stream = Take(full, cut)
         /\ pos = 0
         /\ result = "running"
         /\ calls = <<>>
         /\ eoaAt = -1
         /\ entries = bodies

WalkInit == InitFile(<<97>>) /\ IdleWire /\ InitWalk /\ IdlePath

\* History: the first place an all-zero record was read as a header.
NoteZeroRecord ==
  eoaAt' = IF eoaAt = -1 /\ ZeroRecordAt(stream, pos) THEN pos ELSE eoaAt

\* One turn of Walk's loop in which ParseFile reports io.EOF: break, and
\* Walk returns nil.
WalkEnd ==
  /\ result = "running"
  /\ LET r == ParseFile(stream, pos)
     IN /\ r.err = "EOF"
        /\ pos' = r.pos
        /\ result' = "nil"
  /\ NoteZeroRecord
  /\ UNCHANGED <<fileVars, wire, stream, calls, entries, pathVars>>

\* One turn in which ParseFile fails otherwise: Walk returns that error.
WalkFail ==
  /\ result = "running"
  /\ LET r == ParseFile(stream, pos)
     IN /\ r.err \notin {"EOF", "nil"}
        /\ pos' = r.pos
        /\ result' = r.err
  /\ NoteZeroRecord
  /\ UNCHANGED <<fileVars, wire, stream, calls, entries, pathVars>>

\* One turn in which ParseFile returns an Entry: the callback is called with
\* it, and Walk returns the callback's error if it reports one.
WalkYield ==
  /\ result = "running"
  /\ LET r == ParseFile(stream, pos)
     IN /\ r.err = "nil"
        /\ pos' = r.pos
        /\ calls' = Append(calls, [at |-> pos, end |-> r.pos,
                                   Header |-> r.Header, Body |-> r.Body])
  /\ \E failed \in BOOLEAN : result' = IF failed THEN "callback" ELSE "running"
  /\ NoteZeroRecord
  /\ UNCHANGED <<fileVars, wire, stream, entries, pathVars>>

WalkNext == WalkEnd \/ WalkFail \/ WalkYield

WalkSpec == WalkInit /\ [][WalkNext]_vars

\* ------------------------------------------ block.go: NewHeaderBlock

\* block.go's NewString100: PropertyOverflow when len(b)-1 >= 100.
BlockNewString100(s) ==
  IF Len(s) - 1 >= Len100 THEN [err |-> "PropertyOverflow", val |-> Zeros(Len100)]
  ELSE [err |-> "nil", val |-> CopyInto(Zeros(Len100), s)]

BlockNewString155(s) ==
  IF Len(s) - 1 >= Len155 THEN [err |-> "PropertyOverflow", val |-> Zeros(Len155)]
  ELSE [err |-> "nil", val |-> CopyInto(Zeros(Len155), s)]

\* block.go's String methods: the field without its trailing NUL bytes.
BlockString100String(s) == TrimRightNul(s)

BlockString155String(s) == TrimRightNul(s)

\* NewTimestamp: the seconds, clamped at 0, as eleven octal digits.
NewTimestamp(t) == CopyInto(Zeros(Len12), SprintfOct(11, IF t < 0 THEN 0 ELSE t))

\* NewTypeFlag: the first mode bit found, in this order.
NewTypeFlag(mode) ==
  CASE "symlink" \in mode.type -> SYMTYPE
    [] "chardevice" \in mode.type -> CHRTYPE
    [] "device" \in mode.type -> BLKTYPE
    [] "dir" \in mode.type -> DIRTYPE
    [] "namedpipe" \in mode.type -> FIFOTYPE
    [] OTHER -> REGTYPE

\* strings.SplitN(s, "/", 2).
SplitN2(s) ==
  LET sl == {i \in 1..Len(s) : s[i] = 47}
  IN IF sl = {} THEN <<s>>
     ELSE LET f == CHOOSE i \in sl : \A j \in sl : i <= j
          IN <<SubSeq(s, 1, f - 1), SubSeq(s, f + 1, Len(s))>>

RECURSIVE JoinSlash(_, _)
JoinSlash(xs, n) ==
  IF n = 0 THEN <<>>
  ELSE IF n = 1 THEN xs[1]
  ELSE JoinSlash(xs, n - 1) \o <<47>> \o xs[n]

RECURSIVE Segments(_)
Segments(s) ==
  LET xs == SplitN2(s)
  IN IF Len(xs) = 1 THEN <<s>> ELSE <<xs[1]>> \o Segments(xs[2])

\* path.Clean's pass over the first n elements: empty ones and "." are
\* dropped, ".." takes back the element before it, stays when there is none
\* to take back in a relative path, and is dropped at the root.
RECURSIVE CleanStack(_, _, _)
CleanStack(segs, n, rooted) ==
  IF n = 0 THEN <<>>
  ELSE LET st == CleanStack(segs, n - 1, rooted)
           c == segs[n]
       IN IF c = <<>> \/ c = <<46>> THEN st
          ELSE IF c = <<46, 46>>
            THEN IF Len(st) > 0 /\ st[Len(st)] # <<46, 46>>
                   THEN SubSeq(st, 1, Len(st) - 1)
                   ELSE IF rooted THEN st ELSE Append(st, c)
          ELSE Append(st, c)

\* path.Clean.
Clean(s) ==
  IF s = <<>> THEN <<46>>
  ELSE LET rooted == s[1] = 47
           segs == Segments(s)
           st == CleanStack(segs, Len(segs), rooted)
           body == JoinSlash(st, Len(st))
       IN IF rooted THEN <<47>> \o body
          ELSE IF body = <<>> THEN <<46>> ELSE body

\* path.Join(a, b): the non-empty elements joined by "/" and cleaned; ""
\* when both are empty.
PathJoin(a, b) ==
  LET elems == SelectSeq(<<a, b>>, LAMBDA e : e # <<>>)
  IN IF elems = <<>> THEN <<>> ELSE Clean(JoinSlash(elems, Len(elems)))

\* NewHeaderBlock's loop: while the name takes more than 100 bytes its first
\* segment moves to the prefix; xs[1] panics when the name holds no "/".
RECURSIVE SplitLoop(_, _)
SplitLoop(name, prefix) ==
  IF Len(name) - 1 >= Len100
    THEN LET xs == SplitN2(name)
         IN IF Len(xs) < 2 THEN [panic |-> TRUE, name |-> name, prefix |-> prefix]
            ELSE SplitLoop(xs[2], PathJoin(prefix, xs[1]))
    ELSE [panic |-> FALSE, name |-> name, prefix |-> prefix]

\* block.go's HeaderBlock, serialized: the fields in declaration order.
BlockBytes(h) ==
  h.Name \o h.Mode \o h.UID \o h.GID \o h.Size \o h.Modified \o h.CheckSum
    \o <<h.TypeFlag>> \o h.LinkName \o h.Magic \o h.Version \o h.UserName
    \o h.GroupName \o h.DevMajor \o h.DevMinor \o h.Prefix \o h.Padding

BlockCalcSum(h) ==
  LET b == BlockBytes(h)
  IN SumTo(b, Len(b)) - SumTo(h.CheckSum, Len8) + (48 * 6 - 32)

\* HeaderBlock{}: every field zero.
BlockZeroHeader ==
  [Name |-> Zeros(Len100), Mode |-> Zeros(Len8), UID |-> Zeros(Len8),
   GID |-> Zeros(Len8), Size |-> Zeros(Len12), Modified |-> Zeros(Len12),
   CheckSum |-> Zeros(Len8), TypeFlag |-> 0, LinkName |-> Zeros(Len100),
   Magic |-> Zeros(Len6), Version |-> <<0, 0>>, UserName |-> Zeros(Len32),
   GroupName |-> Zeros(Len32), DevMajor |-> Zeros(Len8),
   DevMinor |-> Zeros(Len8), Prefix |-> Zeros(Len155), Padding |-> Zeros(Len12)]

\* NewHeaderBlock(info): the error ("nil" for none, "panic" for the index
\* out of range) and the header.
NewHeaderBlock(fi) ==
  LET r == SplitLoop(fi.name, <<>>)
  IN IF r.panic THEN [err |-> "panic", Header |-> BlockZeroHeader]
     ELSE LET n == BlockNewString100(r.name)
              p == BlockNewString155(r.prefix)
          IN IF n.err # "nil" \/ p.err # "nil"
               THEN [err |-> "NameTooLong", Header |-> BlockZeroHeader]
               ELSE LET h == [BlockZeroHeader EXCEPT
                                !.Name = n.val,
                                !.Mode = NewMode(fi.mode),
                                !.Modified = NewTimestamp(fi.modTime),
                                !.TypeFlag = NewTypeFlag(fi.mode),
                                !.Magic = NewMagic,
                                !.Version = NewVersion,
                                !.Prefix = p.val]
                    IN [err |-> "nil",
                        Header |-> [h EXCEPT !.CheckSum = NewCheckSum(BlockCalcSum(h))]]

\* The path a header reports: the Name field alone when the Prefix is
\* empty, else Prefix + "/" + Name, the fields read by block.go's String.
BlockName(h) ==
  LET pre == BlockString155String(h.Prefix)
  IN IF pre = <<>> THEN BlockString100String(h.Name)
     ELSE pre \o <<47>> \o BlockString100String(h.Name)

\* Path segments: runs of 'a' of these lengths, and "..".
Run(n) == [i \in 1..n |-> 97]

SegShapes == {Run(0), Run(1), Run(60), Run(100), Run(101), <<46, 46>>}

Paths ==
  LET lists == UNION {[1..k -> SegShapes] : k \in 1..MaxSegs}
  IN {JoinSlash(l, Len(l)) : l \in lists}
       \cup {<<47>> \o JoinSlash(l, Len(l)) : l \in lists}

\* The attributes beside the name: a regular file and a setuid directory
\* dated before the epoch.
Attrs ==
  {[mode |-> [perm |-> 420, setuid |-> FALSE, setgid |-> FALSE, type |-> {}],
    modTime |-> 1000],
   [mode |-> [perm |-> 493, setuid |-> TRUE, setgid |-> FALSE, type |-> {"dir"}],
    modTime |-> -1]}

NotCalled == [err |-> "none", Header |-> BlockZeroHeader]

PathInit ==
  /\ InitFile(<<97>>) /\ IdleWire /\ IdleWalk
  /\ \E name \in Paths, a \in Attrs :
       info = [name |-> name, mode |-> a.mode, modTime |-> a.modTime]
  /\ hb = NotCalled

\* NewHeaderBlock(info) is called.
CallNewHeaderBlock ==
  /\ hb = NotCalled
  /\ hb' = NewHeaderBlock(info)
  /\ UNCHANGED <<fileVars, wire, walkVars, info>>

PathNext == CallNewHeaderBlock

PathSpec == PathInit /\ [][PathNext]_vars

\* ------------------------------------------- a header byte is changed

\* Values a changed byte takes: NUL, space, '+', '0', '7', '8', 0xFF.
MutBytes == {0, 32, 43, 48, 55, 56, 255}

\* The header of NewFile(name) after one Write(body), and its bytes as
\* WriteTo puts them on the wire, unchanged so far.
SumInit ==
  /\ \E name \in Names, body \in EntryBodies :
       LET f == NewFile(name)
           w == WriteBody(f.Body, f.readerPos, body)
           h == Rederive(f.Header, w.Body)
       IN /\ Header = h
          /\ Body = w.Body
          /\ readerBuf = f.readerBuf
          /\ readerPos = f.readerPos + w.n
          /\ written = body
          /\ wire = [at |-> 0, bytes |-> Bytes(h)]
  /\ panicked = FALSE /\ seeked = FALSE /\ nops = 1
  /\ last = NoCall /\ parsed = NoParse
  /\ IdleWalk /\ IdlePath

\* One byte of the serialized header takes another value; the checksum is
\* not recomputed.
Corrupt ==
  /\ wire.at = 0
  /\ \E i \in 1..BlockSize, v \in MutBytes :
       /\ v # wire.bytes[i]
       /\ wire' = [at |-> i, bytes |-> [wire.bytes EXCEPT ![i] = v]]
  /\ UNCHANGED <<fileVars, walkVars, pathVars>>

SumNext == Corrupt

SumSpec == SumInit /\ [][SumNext]_vars

\* ----------------------------------------------- claims on the Entry

\* C1 (as claimed): an Entry built by NewFile and Writes, serialized by
\* WriteTo, followed by the footer and decoded by ParseFile, comes back
\* without error and with the same Name(), Size, Mode, ModTime, TypeFlag
\* and Body.
C1_RoundTrip ==
  parsed # NoParse =>
    /\ parsed.err = "nil"
    /\ Name(parsed.Header) = Name(Header)
    /\ Size(parsed.Header) = Size(Header)
    /\ Mode(parsed.Header) = Mode(Header)
    /\ ModTime(parsed.Header) = ModTime(Header)
    /\ parsed.Header.TypeFlag = Header.TypeFlag
    /\ parsed.Body = Body

\* C2: after NewFile and any calls that returned, the header's Size field
\* decodes to len(Body) and the stored CheckSum is the one recomputed from
\* the header's bytes (Validate).
C2_DerivedFields ==
  ~panicked => Size(Header) = Len(Body) /\ Validate(Header)

\* C2's case: a second Write returned on a body that holds bytes.
C2_Witness ==
  ~panicked /\ nops >= 2 /\ last.op = "Write" /\ last.arg > 0 /\ Len(Body) > 1

\* C9 (as claimed): with no Seek so far every Write completed and Body is
\* the concatenation of the payloads written (so its length never went
\* down).
C9_WritesAccumulate ==
  ~seeked => ~panicked /\ Body = written

\* C10 (as claimed): a Read that follows Seek(0, start) returns the bytes
\* Body holds (as many as the buffer takes), and a Seek from the end lands
\* at len(Body) + offset.
C10_ReadsObserveBody ==
  /\ last.op = "Read" /\ last.afterRewind => last.data = Take(Body, last.arg)
  /\ last.op = "Seek" /\ last.whence = SeekEnd /\ last.ret >= 0
       => last.ret = Len(Body) + last.arg

\* -------------------------------------------------- claims on Walk

\* C4 (as claimed): Walk reports the clean end (nil) only after it read an
\* all-zero record; a stream that ends before one makes it return an error.
C4_TruncationIsError ==
  result = "nil" => eoaAt # -1

\* C7: once Walk has read an all-zero record where it expected a header it
\* has returned nil, every Entry given to the callback was read before that
\* record, and a stream of two all-zero records alone yields no callback.
C7_EndOfArchive ==
  /\ eoaAt # -1 =>
       /\ result = "nil"
       /\ \A i \in 1..Len(calls) : calls[i].end <= eoaAt
  /\ stream = FooterBlock /\ result # "running" =>
       result = "nil" /\ calls = <<>>

\* C7's case: Walk yielded an Entry, then stopped at an all-zero record
\* that is followed by the second one and by a further entry.
C7_Witness ==
  /\ result = "nil"
  /\ eoaAt # -1
  /\ Len(calls) >= 1
  /\ Len(stream) >= eoaAt + 3 * BlockSize

\* C8 (as claimed): a content-bearing Entry whose header declares Size = N
\* took 512 * (1 + ceil(N/512)) bytes of the stream and has a body of N
\* bytes; the Entries given to the callback are those of the stream, each
\* once and in order.
C8_RecordAlignment ==
  /\ \A i \in 1..Len(calls) :
       LET c == calls[i]
       IN c.Header.TypeFlag \in {REGTYPE, CONTTYPE} =>
            /\ c.end - c.at = BlockSize * (1 + (Size(c.Header) + 511) \div 512)
            /\ Len(c.Body) = Size(c.Header)
  /\ Len(calls) <= Len(entries)
  /\ \A i \in 1..Min(Len(calls), Len(entries)) : calls[i].Body = entries[i]
  /\ result = "nil" /\ eoaAt # -1 => Len(calls) = Len(entries)

\* ---------------------------------------- claims on NewHeaderBlock

\* The length of the first '/'-delimited segment of a path.
FirstSegLen(s) == Len(SplitN2(s)[1])

\* C5 (as claimed): NewHeaderBlock returns NameTooLong for a path whose
\* first segment is longer than 100 bytes, with or without segments after
\* it, and for a path whose accumulated prefix exceeds 155 bytes.
C5_NameTooLong ==
  hb # NotCalled =>
    /\ FirstSegLen(info.name) > Len100 => hb.err = "NameTooLong"
    /\ LET r == SplitLoop(info.name, <<>>)
       IN ~r.panic /\ Len(r.prefix) > Len155 => hb.err = "NameTooLong"

\* Whether a path fits the Name field, or splits at a "/" into a prefix of
\* at most 155 bytes and a remainder of at most 100.
Splittable(s) ==
  \/ Len(s) <= Len100
  \/ \E i \in 1..Len(s) : s[i] = 47 /\ i - 1 <= Len155 /\ Len(s) - i <= Len100

\* C6 (as claimed): for a splittable path the construction succeeds and the
\* header reports the original path; a path of at most 100 bytes gets an
\* empty Prefix.
C6_SplitRoundTrip ==
  hb # NotCalled /\ Splittable(info.name) =>
    /\ hb.err = "nil"
    /\ BlockName(hb.Header) = info.name
    /\ Len(info.name) <= Len100 => hb.Header.Prefix = Zeros(Len155)

\* ------------------------------------------- claims on the checksum

\* The bytes of the serialized header that hold the CheckSum field.
CheckSumBytes == 149..156

\* C3 (as claimed): a header that validates stops validating when any one
\* of its 512 bytes, those of the CheckSum field included, takes another
\* value.
C3_AnyByteDetected ==
  wire.at # 0 /\ Validate(Header) => ~Validate(ReadHeader(wire.bytes))

\* C3 (amended): a header that validates stops validating when any one of
\* the 504 bytes outside the CheckSum field takes another value; a change
\* inside the CheckSum field is detected exactly when the field then decodes
\* to another number.
C3_ChangeDetected ==
  wire.at # 0 /\ Validate(Header) =>
    LET h == ReadHeader(wire.bytes)
    IN IF wire.at \in CheckSumBytes
         THEN Validate(h) <=> CheckSumInt(h.CheckSum) = CheckSumInt(Header.CheckSum)
         ELSE ~Validate(h)

\* C3's case: the last byte of a validating header was changed.
C3_Witness ==
  wire.at = BlockSize /\ Validate(Header) /\ wire.bytes # Bytes(Header)

====
